---- MODULE Spec2Model ----
(***************************************************************************)
(* The command grammar of surfer's command prompt (src/src/commands.rs):   *)
(* get_parser builds a fzcmd Command tree from a State snapshot, and       *)
(* run_fuzzy_parser expands the prompt's text against it and pushes one    *)
(* CommandPromptUpdate message.                                            *)
(*                                                                         *)
(* A text (Rust String / &str) is a sequence of one-character strings, so  *)
(* that splitting, prefixing and matching are computed, not assumed.       *)
(***************************************************************************)
EXTENDS Integers, Sequences, FiniteSets, TLC

VARIABLES
    vcd,       \* state.vcd: None, or Some of the loaded document's view state
    dir,       \* the entries of the working directory "."
    cmd,       \* the Command a caller of get_parser holds: None, or Some(node)
    built,     \* the state.vcd that was passed to the get_parser call behind cmd
    path,      \* the texts applied to continuations since that get_parser call
    dirReads,  \* directory enumerations (fs::read_dir) by cmd's caller since built
    msgs,      \* the message vector handed to the last run_fuzzy_parser call, after it
    before,    \* the same vector as it was before that call
    call,      \* the last run_fuzzy_parser call: its input and what the expander returned
    changed    \* the document or the directory changed since that call

vars == <<vcd, dir, cmd, built, path, dirReads, msgs, before, call, changed>>

(***************************************************************************)
(* Bounds of the model.                                                    *)
(***************************************************************************)
\* the longest list of displayed signals (vcd.signals) the model builds
MaxDisplayed == 3
\* the number of letters of the index alphabet the model uses
AlphabetSize == 2

(***************************************************************************)
(* Option and Command values.                                              *)
(***************************************************************************)
None == [tag |-> "None"]
Some(v) == [tag |-> "Some", val |-> v]

Terminal(m) == [tag |-> "Terminal", msg |-> m]
NonTerminal(greed, suggestions, cont) ==
    [tag |-> "NonTerminal", greed |-> greed, suggestions |-> suggestions, cont |-> cont]

\* Message variants built by the grammar; arg holds the variant's fields
Message(type, arg) == [type |-> type, arg |-> arg]

(***************************************************************************)
(* Text literals of the source.                                            *)
(***************************************************************************)
load_vcd ==
    <<"l","o","a","d","_","v","c","d">>
load_url ==
    <<"l","o","a","d","_","u","r","l">>
config_reload ==
    <<"c","o","n","f","i","g","_","r","e","l","o","a","d">>
scroll_to_start ==
    <<"s","c","r","o","l","l","_","t","o","_","s","t","a","r","t">>
scroll_to_end ==
    <<"s","c","r","o","l","l","_","t","o","_","e","n","d">>
zoom_in ==
    <<"z","o","o","m","_","i","n">>
zoom_out ==
    <<"z","o","o","m","_","o","u","t">>
zoom_fit ==
    <<"z","o","o","m","_","f","i","t">>
toggle_menu ==
    <<"t","o","g","g","l","e","_","m","e","n","u">>
toggle_fullscreen ==
    <<"t","o","g","g","l","e","_","f","u","l","l","s","c","r","e","e","n">>
module_add ==
    <<"m","o","d","u","l","e","_","a","d","d">>
module_select ==
    <<"m","o","d","u","l","e","_","s","e","l","e","c","t">>
signal_add ==
    <<"s","i","g","n","a","l","_","a","d","d">>
signal_add_from_scope ==
    <<"s","i","g","n","a","l","_","a","d","d","_","f","r","o","m","_","s","c","o","p","e">>
signal_set_color ==
    <<"s","i","g","n","a","l","_","s","e","t","_","c","o","l","o","r">>
signal_set_name_type ==
    <<"s","i","g","n","a","l","_","s","e","t","_","n","a","m","e","_","t","y","p","e">>
signal_force_name_type ==
    <<"s","i","g","n","a","l","_","f","o","r","c","e","_","n","a","m","e","_","t","y","p","e">>
signal_focus ==
    <<"s","i","g","n","a","l","_","f","o","c","u","s">>
signal_unfocus ==
    <<"s","i","g","n","a","l","_","u","n","f","o","c","u","s">>
signal_add_from_module ==
    <<"s","i","g","n","a","l","_","a","d","d","_","f","r","o","m","_","m","o","d","u","l","e">>
str_Local ==
    <<"L","o","c","a","l">>
str_Unique ==
    <<"U","n","i","q","u","e">>
str_Global ==
    <<"G","l","o","b","a","l">>

(***************************************************************************)
(* Characters and text helpers.                                            *)
(***************************************************************************)
\* the characters the model's texts use, in ASCII order
Ascii ==
    <<" ", ".", "/", "G", "L", "U", "_",
      "a", "b", "c", "d", "e", "f", "g", "h", "i", "j", "k", "l", "m",
      "n", "o", "p", "q", "r", "s", "t", "u", "v", "w", "x", "y", "z">>

\* the rank of each character in Ascii
AsciiRank == [c \in {Ascii[i] : i \in 1..Len(Ascii)} |->
                 CHOOSE i \in 1..Len(Ascii) : Ascii[i] = c]

Ord(c) == AsciiRank[c]

\* String's Ord: lexicographic by character, a proper prefix first
RECURSIVE StrLess(_, _)
StrLess(a, b) ==
    IF b = <<>> THEN FALSE
    ELSE IF a = <<>> THEN TRUE
    ELSE IF Head(a) # Head(b) THEN Ord(Head(a)) < Ord(Head(b))
    ELSE StrLess(Tail(a), Tail(b))

\* the index of the first occurrence of c in s, 0 when there is none
RECURSIVE IndexOf(_, _)
IndexOf(s, c) ==
    IF s = <<>> THEN 0
    ELSE IF Head(s) = c THEN 1
    ELSE LET r == IndexOf(Tail(s), c) IN IF r = 0 THEN 0 ELSE r + 1

\* the index of the last occurrence of c in s, 0 when there is none
LastIndexOf(s, c) ==
    IF \E i \in 1..Len(s) : s[i] = c
    THEN CHOOSE i \in 1..Len(s) : s[i] = c /\ \A j \in (i + 1)..Len(s) : s[j] # c
    ELSE 0

(***************************************************************************)
(* The loaded document (fastwave's VCD behind state.vcd.inner) and the     *)
(* configuration, as get_parser reads them.                                *)
(***************************************************************************)
\* v.scopes_to_ids.keys()
scopes_to_ids_keys == << <<"t">> >>

\* v.signals_to_ids.keys()
signals_to_ids_keys == << <<"t",".","a","_","b">>, <<"t",".","x">> >>

\* the signal indices of the document
SignalIdxs == {1, 2}

\* the scope indices of the document
ScopeIdxs == {1}

\* vcd.inner.signal_from_signal_idx(idx).name()
signal_name(idx) == IF idx = 1 THEN <<"x">> ELSE <<"a","_","b">>

\* vcd.inner.get_children_signal_idxs(scope)
get_children_signal_idxs(scope) == <<1, 2>>

\* state.config.theme.colors.keys()
theme_colors_keys == << <<"r","e","d">> >>

\* the State passed to get_parser and to run_fuzzy_parser
State == [vcd |-> vcd, colors |-> theme_colors_keys]

(***************************************************************************)
(* util::uint_idx_to_alpha_idx and util::alpha_idx_to_uint_idx: the        *)
(* position <-> label codec over a fixed alphabet.                         *)
(***************************************************************************)
Alphabet == SubSeq(<<"a", "b", "c", "d", "e">>, 1, AlphabetSize)

RECURSIVE Pow(_, _)
Pow(b, e) == IF e = 0 THEN 1 ELSE b * Pow(b, e - 1)

\* the least number of characters, at least one, that tell n positions apart
RECURSIVE WidthFrom(_, _)
WidthFrom(w, n) == IF Pow(Len(Alphabet), w) >= n THEN w ELSE WidthFrom(w + 1, n)

LabelWidth(n) == WidthFrom(1, n)

\* encode: position idx as LabelWidth(nsignals) letters, most significant first
uint_idx_to_alpha_idx(idx, nsignals) ==
    LET w == LabelWidth(nsignals)
    IN  [k \in 1..w |-> Alphabet[((idx \div Pow(Len(Alphabet), w - k)) % Len(Alphabet)) + 1]]

\* decode: no match for the empty text or a character outside the alphabet
RECURSIVE AlphaValue(_, _)
AlphaValue(s, acc) ==
    IF s = <<>> THEN acc
    ELSE AlphaValue(Tail(s), acc * Len(Alphabet) + (IndexOf(Alphabet, Head(s)) - 1))

alpha_idx_to_uint_idx(idx) ==
    IF idx = <<>> \/ \E i \in 1..Len(idx) : IndexOf(Alphabet, idx[i]) = 0
    THEN None
    ELSE Some(AlphaValue(idx, 0))

(***************************************************************************)
(* SignalNameType::from_str: Ok for the three literals, Err otherwise.     *)
(***************************************************************************)
SignalNameType_from_str(word) ==
    IF word = str_Local THEN [ok |-> TRUE, val |-> "Local"]
    ELSE IF word = str_Unique THEN [ok |-> TRUE, val |-> "Unique"]
    ELSE IF word = str_Global THEN [ok |-> TRUE, val |-> "Global"]
    ELSE [ok |-> FALSE]

\* Result::unwrap_or
unwrap_or(r, default) == IF r.ok THEN r.val ELSE default

(***************************************************************************)
(* get_parser: the lists captured from the state when the root is built.   *)
(***************************************************************************)
scopes(state) ==
    IF state.vcd = None THEN <<>> ELSE scopes_to_ids_keys

signals(state) ==
    IF state.vcd = None THEN <<>> ELSE signals_to_ids_keys

displayed_signals(state) ==
    IF state.vcd = None THEN <<>>
    ELSE LET v == state.vcd.val
         IN  [i \in 1..Len(v.signals) |->
                 uint_idx_to_alpha_idx(i - 1, Len(v.signals))
                     \o <<"_">> \o signal_name(v.signals[i])]

\* BTreeMap::insert into a map kept as a sequence of entries sorted by key
RECURSIVE BTreeInsert(_, _, _)
BTreeInsert(m, k, v) ==
    IF m = <<>> THEN << [key |-> k, val |-> v] >>
    ELSE IF Head(m).key = k THEN << [key |-> k, val |-> v] >> \o Tail(m)
    ELSE IF StrLess(k, Head(m).key) THEN << [key |-> k, val |-> v] >> \o m
    ELSE << Head(m) >> \o BTreeInsert(Tail(m), k, v)

\* collect::<BTreeMap<_, _>>() of (name, signal_idx) pairs
RECURSIVE BTreeCollect(_, _)
BTreeCollect(idxs, m) ==
    IF idxs = <<>> THEN m
    ELSE BTreeCollect(Tail(idxs), BTreeInsert(m, signal_name(Head(idxs)), Head(idxs)))

signals_in_active_scope(state) ==
    IF state.vcd = None THEN <<>>
    ELSE IF state.vcd.val.active_scope = None THEN <<>>
    ELSE BTreeCollect(get_children_signal_idxs(state.vcd.val.active_scope.val), <<>>)

color_names(state) == state.colors

\* BTreeMap::keys
BTreeKeys(m) == [i \in 1..Len(m) |-> m[i].key]

\* BTreeMap::get
BTreeGet(m, k) ==
    IF \E i \in 1..Len(m) : m[i].key = k
    THEN Some((CHOOSE e \in {m[i] : i \in 1..Len(m)} : e.key = k).val)
    ELSE None

(***************************************************************************)
(* vcd_files: the entries of "." whose extension is "vcd".                 *)
(***************************************************************************)
\* Path::extension: the part of the file name after its last dot
Extension(file) ==
    LET name == SubSeq(file, LastIndexOf(file, "/") + 1, Len(file))
        dot  == LastIndexOf(name, ".")
    IN  IF dot <= 1 THEN None ELSE Some(SubSeq(name, dot + 1, Len(name)))

\* the entries of a directory as read_dir yields them; the order is the
\* platform's, and with a single .vcd entry in the model it does not show in
\* vcd_files
RECURSIVE ReadDir(_)
ReadDir(d) ==
    IF d = {} THEN <<>>
    ELSE LET e == CHOOSE x \in d : \A y \in d : x = y \/ StrLess(x, y)
         IN  <<e>> \o ReadDir(d \ {e})

vcd_files(d) == SelectSeq(ReadDir(d), LAMBDA file : Extension(file) = Some(<<"v","c","d">>))

(***************************************************************************)
(* get_parser: the argument nodes and their continuations.  A continuation *)
(* (a boxed closure) is the record of its name and what it captured.       *)
(***************************************************************************)
Closure(fn, env) == [fn |-> fn, env |-> env]

single_word(suggestions, rest_command) ==
    Some(NonTerminal("Rest", suggestions, rest_command))

\* what a call of the root continuation gives back: the node, and how many
\* times it enumerated the working directory
Visited(c, reads) == [cmd |-> c, reads |-> reads]

\* suggestions() is vcd_files, run on the directory d as it is at the call
single_word_delayed_suggestions(d, rest_command) ==
    Visited(Some(NonTerminal("Rest", vcd_files(d), rest_command)), 1)

load_vcd_rest(word) == Some(Terminal(Message("LoadVcd", word)))

\* load_url's continuation asking for one more segment instead of ending
load_url_rest_continues(query) ==
    Some(NonTerminal("Rest", <<>>, Closure("load_url", <<>>)))

load_url_rest(query) == Some(Terminal(Message("LoadVcdFromUrl", query)))

module_add_rest(word) == Some(Terminal(Message("AddScope", [Name |-> word])))

module_select_rest(word) == Some(Terminal(Message("SetActiveScope", [Name |-> word])))

signal_add_rest(word) == Some(Terminal(Message("AddSignal", [Name |-> word])))

\* signal_add_from_module wrapping the name like signal_add, without the lookup
signal_add_from_module_rest_unchecked(map, name) ==
    Some(Terminal(Message("AddSignal", [Name |-> name])))

signal_add_from_module_rest(map, name) ==
    LET idx == BTreeGet(map, name)
    IN  IF idx = None THEN None
        ELSE Some(Terminal(Message("AddSignal", [Id |-> idx.val])))

signal_set_color_rest(word) ==
    Some(Terminal(Message("SignalColorChange", [idx |-> None, color |-> word])))

\* signal_set_name_type giving up on a text from_str rejects (ok()? for unwrap_or)
signal_set_name_type_rest_strict(word) ==
    LET r == SignalNameType_from_str(word)
    IN  IF r.ok
        THEN Some(Terminal(Message("ChangeSignalNameType",
                 [idx |-> None, name_type |-> r.val])))
        ELSE None

signal_set_name_type_rest(word) ==
    Some(Terminal(Message("ChangeSignalNameType",
        [idx |-> None,
         name_type |-> unwrap_or(SignalNameType_from_str(word), "Local")])))

signal_force_name_type_rest(word) ==
    Some(Terminal(Message("ForceSignalNameTypes",
        [name_type |-> unwrap_or(SignalNameType_from_str(word), "Local")])))

\* the split taken at the last underscore instead of the first (rsplit)
take_until_last_underscore(word) ==
    LET i == LastIndexOf(word, "_")
    IN  IF i = 0 THEN word ELSE SubSeq(word, 1, i - 1)

\* word.chars().take_while(|c| *c != '_')
take_while_not_underscore(word) ==
    LET i == IndexOf(word, "_")
    IN  IF i = 0 THEN word ELSE SubSeq(word, 1, i - 1)

signal_focus_rest(word) ==
    LET alpha_idx == take_while_not_underscore(word)
        idx       == alpha_idx_to_uint_idx(alpha_idx)
    IN  IF idx = None THEN None
        ELSE Some(Terminal(Message("FocusSignal", idx.val)))

\* the continuation of an argument node applied to the rest of the input
rest_command(cont, query) ==
    CASE cont.fn = "load_vcd" -> load_vcd_rest(query)
      [] cont.fn = "load_url" -> load_url_rest(query)
      [] cont.fn = "module_add" -> module_add_rest(query)
      [] cont.fn = "module_select" -> module_select_rest(query)
      [] cont.fn = "signal_add" -> signal_add_rest(query)
      [] cont.fn = "signal_add_from_module" -> signal_add_from_module_rest(cont.env, query)
      [] cont.fn = "signal_set_color" -> signal_set_color_rest(query)
      [] cont.fn = "signal_set_name_type" -> signal_set_name_type_rest(query)
      [] cont.fn = "signal_force_name_type" -> signal_force_name_type_rest(query)
      [] cont.fn = "signal_focus" -> signal_focus_rest(query)

name_type_literals == <<str_Local, str_Unique, str_Global>>

\* the candidate list of the root node
root_suggestions ==
    <<load_vcd, load_url, config_reload, scroll_to_start, scroll_to_end,
      zoom_in, zoom_out, zoom_fit, toggle_menu, toggle_fullscreen,
      module_add, module_select, signal_add, signal_add_from_scope,
      signal_set_color, signal_set_name_type, signal_force_name_type,
      signal_focus, signal_unfocus>>

\* the root continuation: env holds the lists captured when the root was built
dispatch(env, query, d) ==
    CASE query = load_vcd ->
            single_word_delayed_suggestions(d, Closure("load_vcd", <<>>))
      [] query = load_url ->
            Visited(Some(NonTerminal("Rest", <<>>, Closure("load_url", <<>>))), 0)
      [] query = config_reload -> Visited(Some(Terminal(Message("ReloadConfig", <<>>))), 0)
      [] query = scroll_to_start -> Visited(Some(Terminal(Message("ScrollToStart", <<>>))), 0)
      [] query = scroll_to_end -> Visited(Some(Terminal(Message("ScrollToEnd", <<>>))), 0)
      [] query = zoom_in ->
            Visited(Some(Terminal(Message("CanvasZoom",
                [mouse_ptr_timestamp |-> None, delta |-> "0.5"]))), 0)
      [] query = zoom_out ->
            Visited(Some(Terminal(Message("CanvasZoom",
                [mouse_ptr_timestamp |-> None, delta |-> "2.0"]))), 0)
      [] query = zoom_fit -> Visited(Some(Terminal(Message("ZoomToFit", <<>>))), 0)
      [] query = toggle_menu -> Visited(Some(Terminal(Message("ToggleMenu", <<>>))), 0)
      [] query = toggle_fullscreen ->
            Visited(Some(Terminal(Message("ToggleFullscreen", <<>>))), 0)
      [] query = module_add ->
            Visited(single_word(env.scopes, Closure("module_add", <<>>)), 0)
      [] query = module_select ->
            Visited(single_word(env.scopes, Closure("module_select", <<>>)), 0)
      [] query = signal_add ->
            Visited(single_word(env.signals, Closure("signal_add", <<>>)), 0)
      [] query = signal_add_from_module ->
            Visited(single_word(BTreeKeys(env.signals_in_active_scope),
                Closure("signal_add_from_module", env.signals_in_active_scope)), 0)
      [] query = signal_set_color ->
            Visited(single_word(env.color_names, Closure("signal_set_color", <<>>)), 0)
      [] query = signal_set_name_type ->
            Visited(single_word(name_type_literals,
                Closure("signal_set_name_type", <<>>)), 0)
      [] query = signal_force_name_type ->
            Visited(single_word(name_type_literals,
                Closure("signal_force_name_type", <<>>)), 0)
      [] query = signal_focus ->
            Visited(single_word(env.displayed_signals, Closure("signal_focus", <<>>)), 0)
      [] query = signal_unfocus -> Visited(Some(Terminal(Message("UnfocusSignal", <<>>))), 0)
      [] OTHER -> Visited(None, 0)

\* a NonTerminal's continuation applied to a segment of the input
parsing_function(node, query, d) ==
    IF node.cont.fn = "dispatch"
    THEN dispatch(node.cont.env, query, d)
    ELSE Visited(rest_command(node.cont, query), 0)

get_parser(state) ==
    NonTerminal("Word", root_suggestions,
        Closure("dispatch",
            [scopes |-> scopes(state),
             signals |-> signals(state),
             displayed_signals |-> displayed_signals(state),
             signals_in_active_scope |-> signals_in_active_scope(state),
             color_names |-> color_names(state)]))

(***************************************************************************)
(* fzcmd::expand_command: the walk of the grammar against the raw input.   *)
(***************************************************************************)
\* char::to_lowercase on the model's characters
Lower(c) ==
    CASE c = "G" -> "g"
      [] c = "L" -> "l"
      [] c = "U" -> "u"
      [] OTHER -> c

EqualsIgnoreCase(a, b) ==
    /\ Len(a) = Len(b)
    /\ \A i \in 1..Len(a) : Lower(a[i]) = Lower(b[i])

\* the characters of q from i on appear in s from j on, in order, not
\* necessarily contiguous, whatever their case
RECURSIVE SubsequenceFrom(_, _, _, _)
SubsequenceFrom(q, i, s, j) ==
    IF i > Len(q) THEN TRUE
    ELSE IF Len(q) - i > Len(s) - j THEN FALSE
    ELSE IF Lower(q[i]) = Lower(s[j]) THEN SubsequenceFrom(q, i + 1, s, j + 1)
    ELSE SubsequenceFrom(q, i, s, j + 1)

FuzzyMatches(seg, cand) == SubsequenceFrom(seg, 1, cand, 1)

PrefixMatches(seg, cand) ==
    /\ Len(seg) <= Len(cand)
    /\ \A i \in 1..Len(seg) : Lower(seg[i]) = Lower(cand[i])

\* the ranking: a prefix match first, then the shorter candidate, then the
\* lexicographically smaller one
RanksBefore(seg, a, b) ==
    LET pa == PrefixMatches(seg, a)
        pb == PrefixMatches(seg, b)
    IN  IF pa # pb THEN pa
        ELSE IF Len(a) # Len(b) THEN Len(a) < Len(b)
        ELSE StrLess(a, b)

RECURSIVE RankInsert(_, _, _)
RankInsert(seg, sorted, c) ==
    IF sorted = <<>> THEN <<c>>
    ELSE IF RanksBefore(seg, c, Head(sorted)) THEN <<c>> \o sorted
    ELSE <<Head(sorted)>> \o RankInsert(seg, Tail(sorted), c)

RECURSIVE RankSort(_, _, _)
RankSort(seg, cands, sorted) ==
    IF cands = <<>> THEN sorted
    ELSE RankSort(seg, Tail(cands), RankInsert(seg, sorted, Head(cands)))

\* the candidates the segment's text matches, ranked; the whole list as it is
\* for an empty segment
Ranked(seg, cands) ==
    IF seg = <<>> THEN cands
    ELSE RankSort(seg, SelectSeq(cands, LAMBDA c : FuzzyMatches(seg, c)), <<>>)

RECURSIVE TrimStart(_)
TrimStart(s) == IF s # <<>> /\ Head(s) = " " THEN TrimStart(Tail(s)) ELSE s

\* the segment of the input a node consumes: up to the next whitespace for
\* Word, everything for Rest
Segment(greed, input) ==
    LET sp == IndexOf(input, " ")
    IN  IF greed = "Word" /\ sp > 0 THEN SubSeq(input, 1, sp - 1) ELSE input

Join(expanded, text) ==
    IF expanded = <<>> THEN text ELSE expanded \o <<" ">> \o text

FuzzyOutput(expanded, suggestions, visited, reads) ==
    [expanded |-> expanded, suggestions |-> suggestions,
     visited |-> visited, reads |-> reads]

\* visited lists the continuation calls made, reads counts the directory
\* enumerations they caused
RECURSIVE Expand(_, _, _, _, _, _)
Expand(node, input, expanded, visited, reads, d) ==
    IF node.tag = "Terminal" THEN FuzzyOutput(expanded, None, visited, reads)
    ELSE
    LET rest    == TrimStart(input)
        seg     == Segment(node.greed, rest)
        after   == SubSeq(rest, Len(seg) + 1, Len(rest))
        ranked  == Ranked(seg, node.suggestions)
        exact   == SelectSeq(node.suggestions, LAMBDA c : EqualsIgnoreCase(c, seg))
        prefix  == SelectSeq(ranked, LAMBDA c : PrefixMatches(seg, c))
        chosen  == IF exact # <<>> THEN Some(exact[1])
                   ELSE IF after = <<>> THEN None
                   ELSE IF Len(prefix) = 1 THEN Some(prefix[1])
                   ELSE Some(seg)
    IN  IF rest = <<>> THEN FuzzyOutput(expanded, Some(ranked), visited, reads)
        ELSE IF chosen = None
        THEN FuzzyOutput(
                 Join(expanded, IF Len(prefix) = 1 THEN prefix[1] ELSE seg),
                 Some(ranked), visited, reads)
        ELSE LET got == parsing_function(node, chosen.val, d)
                 seen == Append(visited, [fn |-> node.cont.fn, query |-> chosen.val])
             IN  IF got.cmd = None
                 THEN FuzzyOutput(expanded, Some(ranked), seen, reads + got.reads)
                 ELSE Expand(got.cmd.val, after, Join(expanded, chosen.val),
                             seen, reads + got.reads, d)

expand_command(input, command, d) == Expand(command, input, <<>>, <<>>, 0, d)

(***************************************************************************)
(* run_fuzzy_parser.                                                       *)
(***************************************************************************)
\* Option::unwrap_or
option_unwrap_or(o, default) == IF o = None THEN default ELSE o.val

CommandPromptUpdate(out) ==
    Message("CommandPromptUpdate",
        [expanded |-> out.expanded,
         suggestions |-> option_unwrap_or(out.suggestions, <<>>)])

\* run_fuzzy_parser overwriting the vector instead of pushing onto it
run_fuzzy_parser_overwrite(out, prior) == << CommandPromptUpdate(out) >>

\* the vector msgs after run_fuzzy_parser(input, state, msgs), out being what
\* expand_command(input, get_parser(state)) returned
run_fuzzy_parser(out, prior) == Append(prior, CommandPromptUpdate(out))

(***************************************************************************)
(* The inputs the model draws.                                             *)
(***************************************************************************)
bogus_cmd == <<"b","o","g","u","s">>

the_vcd_file == <<".","/","f",".","v","c","d">>

other_file == <<".","/","n",".","t","x","t">>

\* the tokens handed to the root continuation
RootQueries ==
    {root_suggestions[i] : i \in 1..Len(root_suggestions)}
        \cup {signal_add_from_module, bogus_cmd}

\* texts handed to an argument's continuation besides the node's own candidates
ArgTexts ==
    { <<"b">>, <<"x">>, str_Unique }

\* the prompt texts run_fuzzy_parser is called with
Inputs ==
    { <<>>,
      <<"z","o","o","m","_","i">>,
      <<"s","i","g","n","a","l","_">>,
      bogus_cmd,
      zoom_in,
      module_add \o <<" ">>,
      signal_focus \o <<" ">>,
      signal_focus \o <<" ", "a", "_", "x">>,
      load_vcd \o <<" ">> }

\* the contents msgs may have when run_fuzzy_parser is called
PriorMsgs ==
    { <<>>,
      << Message("ScrollToStart", <<>>), Message("FocusSignal", 0) >> }

(***************************************************************************)
(* The state machine.                                                      *)
(***************************************************************************)
Init ==
    /\ vcd = None
    /\ dir = {other_file}
    /\ cmd = None
    /\ built = None
    /\ path = <<>>
    /\ dirReads = 0
    /\ msgs = <<>>
    /\ before = <<>>
    /\ call = None
    /\ changed = FALSE

\* a document is loaded: nothing displayed, no active scope
LoadVcd ==
    /\ vcd' = Some([signals |-> <<>>, active_scope |-> None])
    /\ changed' = TRUE
    /\ UNCHANGED <<dir, cmd, built, path, dirReads, msgs, before, call>>

\* a signal of the document is appended to the displayed signals
AddSignal(idx) ==
    /\ vcd # None
    /\ Len(vcd.val.signals) < MaxDisplayed
    /\ vcd' = Some([vcd.val EXCEPT !.signals = Append(@, idx)])
    /\ changed' = TRUE
    /\ UNCHANGED <<dir, cmd, built, path, dirReads, msgs, before, call>>

\* a scope of the document becomes the active scope
SetActiveScope(scope) ==
    /\ vcd # None
    /\ vcd' = Some([vcd.val EXCEPT !.active_scope = Some(scope)])
    /\ changed' = TRUE
    /\ UNCHANGED <<dir, cmd, built, path, dirReads, msgs, before, call>>

\* a .vcd file appears in or disappears from the working directory
ChangeDir ==
    /\ dir' = IF the_vcd_file \in dir THEN dir \ {the_vcd_file}
              ELSE dir \cup {the_vcd_file}
    /\ changed' = TRUE
    /\ UNCHANGED <<vcd, cmd, built, path, dirReads, msgs, before, call>>

\* get_parser enumerating the working directory while it builds the root
GetParserCallEager ==
    /\ cmd' = Some(get_parser(State))
    /\ built' = vcd
    /\ path' = <<>>
    /\ dirReads' = 1
    /\ UNCHANGED <<vcd, dir, msgs, before, call, changed>>

\* a caller builds the grammar from the current state
GetParserCall ==
    /\ cmd' = Some(get_parser(State))
    /\ built' = vcd
    /\ path' = <<>>
    /\ dirReads' = 0
    /\ UNCHANGED <<vcd, dir, msgs, before, call, changed>>

\* the node's continuation is applied to query; no match leaves None
ContinuationCall(query) ==
    LET got == parsing_function(cmd.val, query, dir)
    IN  /\ cmd' = got.cmd
        /\ path' = Append(path, query)
        /\ dirReads' = dirReads + got.reads
        /\ UNCHANGED <<vcd, dir, built, msgs, before, call, changed>>

\* the caller holds the root and applies its continuation to a token
RootCall(query) ==
    /\ cmd # None
    /\ cmd.val.tag = "NonTerminal"
    /\ cmd.val.greed = "Word"
    /\ ContinuationCall(query)

\* the caller holds an argument node and applies its continuation to a text
ArgCall(query) ==
    /\ cmd # None
    /\ cmd.val.tag = "NonTerminal"
    /\ cmd.val.greed = "Rest"
    /\ ContinuationCall(query)

\* the texts the caller may pass to the node it holds: the node's candidates
\* and the texts of ArgTexts
ArgQueries ==
    IF cmd # None /\ cmd.val.tag = "NonTerminal"
    THEN ArgTexts \cup {cmd.val.suggestions[i] : i \in 1..Len(cmd.val.suggestions)}
    ELSE {}

\* run_fuzzy_parser expanding against a grammar kept from an earlier state
\* (built) instead of building one from the state it is given
RunFuzzyParserCached(input, prior) ==
    \E out \in {expand_command(input,
                     get_parser([vcd |-> built, colors |-> theme_colors_keys]), dir)} :
        /\ msgs' = run_fuzzy_parser(out, prior)
        /\ before' = prior
        /\ call' = Some([input |-> input, out |-> out])
        /\ changed' = FALSE
        /\ UNCHANGED <<vcd, dir, cmd, built, path, dirReads>>

\* one call of run_fuzzy_parser(input, state, msgs) on the vector prior
RunFuzzyParser(input, prior) ==
    \E out \in {expand_command(input, get_parser(State), dir)} :
        /\ msgs' = run_fuzzy_parser(out, prior)
        /\ before' = prior
        /\ call' = Some([input |-> input, out |-> out])
        /\ changed' = FALSE
        /\ UNCHANGED <<vcd, dir, cmd, built, path, dirReads>>

Next ==
    \/ LoadVcd
    \/ \E idx \in SignalIdxs : AddSignal(idx)
    \/ \E scope \in ScopeIdxs : SetActiveScope(scope)
    \/ ChangeDir
    \/ GetParserCall
    \/ \E query \in RootQueries : RootCall(query)
    \/ \E query \in ArgQueries : ArgCall(query)

Spec == Init /\ [][Next]_vars

NextRun ==
    \/ LoadVcd
    \/ \E idx \in SignalIdxs : AddSignal(idx)
    \/ ChangeDir
    \/ \E input \in Inputs, prior \in PriorMsgs : RunFuzzyParser(input, prior)

SpecRun == Init /\ [][NextRun]_vars
(***************************************************************************)
(* Helpers of the properties below.                                        *)
(***************************************************************************)
Range(seq) == {seq[i] : i \in 1..Len(seq)}

\* the State whose document is v
StateOf(v) == [vcd |-> v, colors |-> theme_colors_keys]

\* the candidate list of command token's argument for the document v
CandidatesOf(token, v) ==
    CASE token = module_add -> scopes(StateOf(v))
      [] token = module_select -> scopes(StateOf(v))
      [] token = signal_add -> signals(StateOf(v))
      [] token = signal_add_from_module -> BTreeKeys(signals_in_active_scope(StateOf(v)))
      [] token = signal_set_color -> color_names(StateOf(v))
      [] token = signal_focus -> displayed_signals(StateOf(v))

\* the arguments that carry the typed name itself
NameCarrying == {module_add, module_select, signal_add, signal_set_color}

\* the document-derived reference arguments
DocumentDerived == NameCarrying \cup {signal_add_from_module, signal_focus}

\* the text before the first underscore of word is empty or has a character
\* outside the index alphabet
Undecodable(word) ==
    \E k \in 0..Len(word) :
        /\ k = Len(word) \/ word[k + 1] = "_"
        /\ \A j \in 1..k : word[j] # "_"
        /\ k = 0 \/ \E j \in 1..k : word[j] \notin Range(Alphabet)

\* the message a name-carrying argument wraps text in
Wrapped(token, text) ==
    CASE token = module_add -> Message("AddScope", [Name |-> text])
      [] token = module_select -> Message("SetActiveScope", [Name |-> text])
      [] token = signal_add -> Message("AddSignal", [Name |-> text])
      [] token = signal_set_color ->
            Message("SignalColorChange", [idx |-> None, color |-> text])

\* the label of position p (from 0) among the displayed signals of document v
FocusLabel(v, p) ==
    uint_idx_to_alpha_idx(p, Len(v.signals)) \o <<"_">> \o signal_name(v.signals[p + 1])

\* the enum value a closed-enum text stands for
NameTypeOf(text) ==
    IF text = str_Unique THEN "Unique"
    ELSE IF text = str_Global THEN "Global"
    ELSE "Local"

LastMsg == msgs[Len(msgs)]

(***************************************************************************)
(* The properties.                                                         *)
(***************************************************************************)

\* C1 (as stated): the continuation of every document-derived reference
\* argument, applied to a label that is not in the node's candidate list,
\* yields no match.
C1_UnrecognizedLabelNoMatch ==
    (/\ Len(path) = 2
     /\ path[1] \in DocumentDerived
     /\ path[2] \notin Range(CandidatesOf(path[1], built)))
        => cmd = None

\* C1 (amended): only signal_add_from_module looks the label up: a label that
\* is not one of its candidates yields no match, and none matches without a
\* document; signal_focus yields no match exactly when the text before the
\* first underscore does not decode; module_add, module_select, signal_add
\* and signal_set_color wrap every text in their Action.
C1_OnlyLookupRejects ==
    Len(path) = 2 =>
        /\ (/\ path[1] = signal_add_from_module
            /\ path[2] \notin Range(CandidatesOf(path[1], built))) => cmd = None
        /\ (path[1] = signal_add_from_module /\ built = None) => cmd = None
        /\ path[1] = signal_focus => (cmd = None <=> Undecodable(path[2]))
        /\ path[1] \in NameCarrying =>
               cmd = Some(Terminal(Wrapped(path[1], path[2])))

\* C1 witness: with a document and an active scope, signal_add_from_module
\* was given a text that is none of its candidates and did not match.
C1_Witness ==
    /\ Len(path) = 2
    /\ path[1] = signal_add_from_module
    /\ built # None
    /\ CandidatesOf(path[1], built) # <<>>
    /\ path[2] \notin Range(CandidatesOf(path[1], built))
    /\ cmd = None

\* C2 (as stated): every closed-enum and document-derived argument node has
\* greed Word, and only the free-text arguments have greed Rest.
C2_ArgumentsAreSingleToken ==
    (Len(path) = 1 /\ cmd # None /\ cmd.val.tag = "NonTerminal") =>
        /\ path[1] \in {signal_set_name_type, signal_force_name_type,
                         module_add, module_select, signal_add,
                         signal_set_color, signal_focus}
               => cmd.val.greed = "Word"
        /\ cmd.val.greed = "Rest" => path[1] \in {load_vcd, load_url}

\* C3: the signal_focus candidate at position p is encode(p, n) + "_" + name,
\* and the continuation applied to it yields Terminal(FocusSignal(p)).
C3_FocusLabelRoundTrip ==
    built # None =>
        \A p \in 0..(Len(built.val.signals) - 1) :
            /\ path = <<signal_focus>> =>
                   cmd.val.suggestions[p + 1] = FocusLabel(built.val, p)
            /\ path = <<signal_focus, FocusLabel(built.val, p)>> =>
                   cmd = Some(Terminal(Message("FocusSignal", p)))

\* C3 witness: three displayed signals, the first and the last the same
\* signal, whose name has an underscore; the last one's label was applied.
C3_Witness ==
    /\ built = Some([signals |-> <<2, 1, 2>>, active_scope |-> None])
    /\ path = <<signal_focus, FocusLabel(built.val, 2)>>
    /\ Len(uint_idx_to_alpha_idx(2, 3)) = 2
    /\ cmd = Some(Terminal(Message("FocusSignal", 2)))

\* C4: one call of run_fuzzy_parser appends exactly one message, a
\* CommandPromptUpdate with the expansion and the suggestions (none gives the
\* empty list), and leaves the messages already there as they were.
C4_OneUpdateAppended ==
    call # None =>
        /\ Len(msgs) = Len(before) + 1
        /\ SubSeq(msgs, 1, Len(before)) = before
        /\ LastMsg.type = "CommandPromptUpdate"
        /\ LastMsg.arg.expanded = call.val.out.expanded
        /\ LastMsg.arg.suggestions =
               IF call.val.out.suggestions = None THEN <<>>
               ELSE call.val.out.suggestions.val

\* C4 witness: the input was a whole command, the expander reached its
\* Terminal and returned no suggestions, and msgs held messages before.
C4_Witness ==
    /\ call # None
    /\ call.val.input = zoom_in
    /\ call.val.out.suggestions = None
    /\ call.val.out.visited # <<>>
    /\ Len(before) = 2
    /\ Len(msgs) = 3
    /\ LastMsg.arg.suggestions = <<>>

C6_LazyDirectoryListing ==
    /\ dirReads = IF Len(path) >= 1 /\ path[1] = load_vcd THEN 1 ELSE 0
    /\ (Len(path) = 1 /\ path[1] \in DocumentDerived /\ cmd # None) =>
           cmd.val.suggestions = CandidatesOf(path[1], built)

\* C6 witness: load_vcd was dispatched, after the document had changed since
\* the root was built, and the listing was read once.
C6_Witness ==
    /\ path = <<load_vcd>>
    /\ dirReads = 1
    /\ cmd.val.suggestions = <<the_vcd_file>>
    /\ vcd # built

\* C7: a closed-enum argument always yields a Terminal: with the enum value
\* the text names, and with Local for every other text.
C7_EnumFallsBackToLocal ==
    Len(path) = 2 =>
        /\ path[1] = signal_set_name_type =>
               cmd = Some(Terminal(Message("ChangeSignalNameType",
                         [idx |-> None, name_type |-> NameTypeOf(path[2])])))
        /\ path[1] = signal_force_name_type =>
               cmd = Some(Terminal(Message("ForceSignalNameTypes",
                         [name_type |-> NameTypeOf(path[2])])))

\* C7 witness: signal_set_name_type was given a text that is no literal and
\* produced the Action with Local.
C7_Witness ==
    /\ path = <<signal_set_name_type, <<"x">> >>
    /\ cmd = Some(Terminal(Message("ChangeSignalNameType",
                  [idx |-> None, name_type |-> "Local"])))

\* C8: a node with greed Rest is the last segment: its continuation yields a
\* Terminal or no match, so a path has at most two segments.
C8_RestIsFinal ==
    /\ Len(path) <= 2
    /\ (cmd # None /\ cmd.val.tag = "NonTerminal" /\ cmd.val.greed = "Rest")
           => Len(path) = 1
    /\ Len(path) = 2 => (cmd = None \/ cmd.val.tag = "Terminal")

\* C8 witness: the Rest node of load_url was applied to a text and gave its
\* Terminal.
C8_Witness ==
    /\ Len(path) = 2
    /\ path[1] = load_url
    /\ cmd = Some(Terminal(Message("LoadVcdFromUrl", path[2])))

\* C9 (as stated): the root continuation returns a node exactly for the
\* names of the root candidate list.
C9_RootListMatchesDispatch ==
    Len(path) = 1 => (cmd # None <=> path[1] \in Range(root_suggestions))

\* C10 (as stated): every FocusSignal(idx) the signal_focus continuation
\* produces has idx below the number of displayed signals of the snapshot
\* the grammar was built from, and none is produced without a document.
C10_FocusIndexInRange ==
    (Len(path) = 2 /\ path[1] = signal_focus /\ cmd # None) =>
        /\ built # None
        /\ cmd.val.msg.arg < Len(built.val.signals)
====
